---- MODULE Spec2Model ----
(***************************************************************************)
(* SuppAI API (src/main.py): the rule engine build_recommendations, the    *)
(* request models SurveyResponse and EmailPayload, the two module-level    *)
(* tables CITATIONS and COUNTRY_DEFICIENCY, and the three routes           *)
(* /recommend, /send-email and /health.                                    *)
(*                                                                         *)
(* Text: a Python str that the code inspects character by character        *)
(* (country, email) is a sequence of one-character strings; a str that is  *)
(* only stored and compared (names, reasons, dosages, citations) is a      *)
(* TLA+ string.  The source writes U+2013 (en dash) and U+2011             *)
(* (non-breaking hyphen) in several literals; both are written "-" here.   *)
(* Optional[T] is a set: {} for None, {x} for the value x.                 *)
(***************************************************************************)
EXTENDS Integers, Sequences, FiniteSets, TLC

VARIABLES CITATIONS, COUNTRY_DEFICIENCY, conn

vars == <<CITATIONS, COUNTRY_DEFICIENCY, conn>>

(***************************************************************************)
(* Bounds of the model.                                                    *)
(***************************************************************************)
\* request handlers in flight at once
MaxInFlight == 2
\* fields of a survey request that differ from a uniform base survey
MaxVaried == 2
\* recommendations carried by one /send-email payload
MaxPayloadRecs == 2
\* instants datetime.utcnow() may return: 0..MaxClock
MaxClock == 1

(***************************************************************************)
(* Program constants.                                                      *)
(***************************************************************************)
\* Field(ge=1, le=5)
RatingMin == 1
RatingMax == 5

\* the integers a client may send as a rating: the valid range and one
\* value on either side of it
RatingInputs == (RatingMin - 1)..(RatingMax + 1)

(***************************************************************************)
(* str.lower() on the letters A..Z; every other character is unchanged.    *)
(***************************************************************************)
UpperLetters ==
    <<"A","B","C","D","E","F","G","H","I","J","K","L","M",
      "N","O","P","Q","R","S","T","U","V","W","X","Y","Z">>

LowerLetters ==
    <<"a","b","c","d","e","f","g","h","i","j","k","l","m",
      "n","o","p","q","r","s","t","u","v","w","x","y","z">>

LowerChar(c) ==
    IF \E i \in 1..Len(UpperLetters) : UpperLetters[i] = c
    THEN LowerLetters[CHOOSE i \in 1..Len(UpperLetters) : UpperLetters[i] = c]
    ELSE c

lower(s) == [i \in 1..Len(s) |-> LowerChar(s[i])]

(***************************************************************************)
(* The static tables as the module defines them at import.                 *)
(***************************************************************************)
CitationsAtStart ==
    [k \in {"vitamin_d", "creatine", "probiotic", "magnesium",
            "omega_3", "quercetin", "zinc", "ashwagandha"} |->
        CASE k = "vitamin_d" ->
               <<"Harvard T.H. Chan School of Public Health - Vitamin D and Health",
                 "University of Cambridge - Vitamin D and immune modulation">>
          [] k = "creatine" ->
               <<"University of Nottingham - Creatine and muscle performance",
                 "Australian Institute of Sport - Creatine evidence">>
          [] k = "probiotic" ->
               <<"Johns Hopkins - Gut microbiome and probiotics",
                 "Stanford Medicine - Probiotics in GI health">>
          [] k = "magnesium" ->
               <<"NIH ODS - Magnesium and sleep quality",
                 "UC Berkeley - Stress and magnesium relationship">>
          [] k = "omega_3" ->
               <<"Harvard - Omega-3 and cardiovascular/skin benefits">>
          [] k = "quercetin" ->
               <<"NC State University - Quercetin and allergies">>
          [] k = "zinc" ->
               <<"University of Florida - Zinc and skin health">>
          [] k = "ashwagandha" ->
               <<"University of Michigan - Adaptogens for stress">>]

CountryDeficiencyAtStart ==
    [c \in {<<"u","k">>,
            <<"i","r","e","l","a","n","d">>,
            <<"c","a","n","a","d","a">>,
            <<"s","w","e","d","e","n">>,
            <<"n","o","r","w","a","y">>} |-> "vitamin_d"]

\* dict.get(key): the value, or None
DictGet(d, key) == IF key \in DOMAIN d THEN {d[key]} ELSE {}

(***************************************************************************)
(* class Recommendation                                                    *)
(***************************************************************************)
\* dosage is Optional[str]: {} or {the string}
Recommendation(name, reason, dosage, sources) ==
    [name |-> name, reason |-> reason, dosage |-> {dosage}, sources |-> sources]

(***************************************************************************)
(* build_recommendations: the eight rules.  Each yields what it appends to *)
(* recs: one record or nothing.  C is the citation table and D the country *)
(* table as they are when the function runs.                               *)
(***************************************************************************)
\* mutant: the threshold read as "above 4"
MagnesiumRule_above4(data, C) ==
    IF data.energy > 4
    THEN <<Recommendation("Magnesium Glycinate",
             "Supports cellular energy and relaxation; often low in modern diets.",
             "200-400 mg in the evening", C["magnesium"])>>
    ELSE <<>>

MagnesiumRule(data, C) ==
    IF data.energy >= 4
    THEN <<Recommendation("Magnesium Glycinate",
             "Supports cellular energy and relaxation; often low in modern diets.",
             "200-400 mg in the evening", C["magnesium"])>>
    ELSE <<>>

\* mutant: the dosage of another rule pasted in
CreatineRule_pasted_dosage(data, C) ==
    IF data.muscle_gain >= 3
    THEN <<Recommendation("Creatine Monohydrate",
             "Improves high-intensity performance and lean mass in numerous RCTs.",
             "10-20B CFU daily", C["creatine"])>>
    ELSE <<>>

CreatineRule(data, C) ==
    IF data.muscle_gain >= 3
    THEN <<Recommendation("Creatine Monohydrate",
             "Improves high-intensity performance and lean mass in numerous RCTs.",
             "3-5 g daily", C["creatine"])>>
    ELSE <<>>

ProbioticRule(data, C) ==
    IF data.gut_health >= 3 \/ data.digestion >= 3
    THEN <<Recommendation("Multi-strain Probiotic",
             "Helps balance gut microbiota and supports digestion.",
             "10-20B CFU daily", C["probiotic"])>>
    ELSE <<>>

AshwagandhaRule(data, C) ==
    IF data.stress >= 3 \/ data.sleep >= 3
    THEN <<Recommendation("Ashwagandha (KSM-66/Sensoril)",
             "Adaptogen studied for perceived stress and sleep quality.",
             "300-600 mg daily", C["ashwagandha"])>>
    ELSE <<>>

OmegaRule(data, C) ==
    IF data.skin >= 3 \/ data.allergies >= 3
    THEN <<Recommendation("Omega-3 (EPA/DHA)",
             "Anti-inflammatory support with benefits for skin barrier and allergies.",
             "1-2 g combined EPA/DHA daily", C["omega_3"])>>
    ELSE <<>>

QuercetinRule(data, C) ==
    IF data.allergies >= 4
    THEN <<Recommendation("Quercetin",
             "Bioflavonoid studied for mast-cell stabilization and seasonal allergies.",
             "500-1000 mg daily with food", C["quercetin"])>>
    ELSE <<>>

\* mutant: the citations of the rule above pasted in
ZincRule_pasted_sources(data, C) ==
    IF data.skin >= 4
    THEN <<Recommendation("Zinc Picolinate",
             "Supports skin integrity and immune function; deficiency correlates with acne.",
             "15-30 mg daily with food", C["quercetin"])>>
    ELSE <<>>

ZincRule(data, C) ==
    IF data.skin >= 4
    THEN <<Recommendation("Zinc Picolinate",
             "Supports skin integrity and immune function; deficiency correlates with acne.",
             "15-30 mg daily with food", C["zinc"])>>
    ELSE <<>>

\* mutant: the country looked up as typed
VitaminDRule_no_lower(data, C, D) ==
    IF DictGet(D, data.country) = {"vitamin_d"}
    THEN <<Recommendation("Vitamin D3 (cholecalciferol)",
             "High latitude regions have limited UVB; D3 supports immunity and mood.",
             "1000-2000 IU daily", C["vitamin_d"])>>
    ELSE <<>>

\* Regional deficiency logic
VitaminDRule(data, C, D) ==
    IF DictGet(D, lower(data.country)) = {"vitamin_d"}
    THEN <<Recommendation("Vitamin D3 (cholecalciferol)",
             "High latitude regions have limited UVB; D3 supports immunity and mood.",
             "1000-2000 IU daily", C["vitamin_d"])>>
    ELSE <<>>

\* the list recs when the last rule has run
RuleRecs(data, C, D) ==
    MagnesiumRule(data, C) \o CreatineRule(data, C) \o ProbioticRule(data, C)
        \o AshwagandhaRule(data, C) \o OmegaRule(data, C) \o QuercetinRule(data, C)
        \o ZincRule(data, C) \o VitaminDRule(data, C, D)

(***************************************************************************)
(* A Python dict as the sequence of its items in insertion order.          *)
(* unique[k] = v replaces the value of an existing key where it stands     *)
(* and appends a new key at the end.                                       *)
(***************************************************************************)
\* mutant: a new key is put in front of the others
DictSet_in_front(d, k, v) ==
    IF \E i \in 1..Len(d) : d[i].key = k
    THEN [i \in 1..Len(d) |-> IF d[i].key = k THEN [key |-> k, value |-> v] ELSE d[i]]
    ELSE <<[key |-> k, value |-> v]>> \o d

DictSet(d, k, v) ==
    IF \E i \in 1..Len(d) : d[i].key = k
    THEN [i \in 1..Len(d) |-> IF d[i].key = k THEN [key |-> k, value |-> v] ELSE d[i]]
    ELSE Append(d, [key |-> k, value |-> v])

\* list(unique.values())
DictValues(d) == [i \in 1..Len(d) |-> d[i].value]

\* for r in recs: unique[r.name] = r
RECURSIVE UniqueByName(_, _)
UniqueByName(recs, unique) ==
    IF recs = <<>> THEN unique
    ELSE UniqueByName(Tail(recs), DictSet(unique, Head(recs).name, Head(recs)))

\* mutant: skin and allergies each append Omega-3, and recs is returned as it
\* stands, without the collapse by name
build_recommendations_no_collapse(data, C, D) ==
    MagnesiumRule(data, C) \o CreatineRule(data, C) \o ProbioticRule(data, C)
        \o AshwagandhaRule(data, C)
        \o OmegaRule([data EXCEPT !.allergies = 1], C)
        \o OmegaRule([data EXCEPT !.skin = 1], C)
        \o QuercetinRule(data, C) \o ZincRule(data, C) \o VitaminDRule(data, C, D)

build_recommendations(data, C, D) ==
    DictValues(UniqueByName(RuleRecs(data, C, D), <<>>))

(***************************************************************************)
(* EmailStr: validation strips surrounding whitespace, checks the syntax   *)
(* (one "@", a non-empty local part, a dotted domain, no blank inside)     *)
(* and yields the address with its domain part lower-cased.                *)
(***************************************************************************)
RECURSIVE StripLeft(_)
StripLeft(s) == IF s # <<>> /\ Head(s) = " " THEN StripLeft(Tail(s)) ELSE s

RECURSIVE StripRight(_)
StripRight(s) ==
    IF s # <<>> /\ s[Len(s)] = " " THEN StripRight(SubSeq(s, 1, Len(s) - 1)) ELSE s

strip(s) == StripRight(StripLeft(s))

AtIndex(e) == CHOOSE i \in 1..Len(e) : e[i] = "@"

EmailSyntaxOk(e) ==
    /\ Cardinality({i \in 1..Len(e) : e[i] = "@"}) = 1
    /\ \A i \in 1..Len(e) : e[i] # " "
    /\ AtIndex(e) > 1
    /\ \E i \in (AtIndex(e) + 2)..(Len(e) - 1) : e[i] = "."
    /\ e[AtIndex(e) + 1] # "."
    /\ e[Len(e)] # "."

EmailStrValid(value) == EmailSyntaxOk(strip(value))

\* the validated value: local part as given, "@" and domain lower-cased
EmailStr(value) ==
    LET email == strip(value)
        at == AtIndex(email)
    IN  SubSeq(email, 1, at - 1) \o lower(SubSeq(email, at, Len(email)))

(***************************************************************************)
(* class SurveyResponse: the field constraints, and the validated model    *)
(* the handler receives.                                                   *)
(***************************************************************************)
RatingFields ==
    {"energy", "gut_health", "muscle_gain", "stress", "sleep",
     "allergies", "autoimmune", "skin", "digestion"}

\* mutant: the lower limit left out
RatingOk_no_ge(v) == v <= RatingMax

RatingOk(v) == v >= RatingMin /\ v <= RatingMax

SurveyResponseValid(body) ==
    /\ \A f \in RatingFields : RatingOk(body[f])
    /\ \A e \in body.email : EmailStrValid(e)

SurveyResponse(body) == [body EXCEPT !.email = {EmailStr(e) : e \in body.email}]

(***************************************************************************)
(* class EmailPayload                                                      *)
(***************************************************************************)
EmailPayloadValid(body) == EmailStrValid(body.email)

EmailPayload(body) == [body EXCEPT !.email = EmailStr(body.email)]

(***************************************************************************)
(* The three endpoints: what a request's handling yields, given the body   *)
(* and the tables as they are.  A body that fails validation is answered   *)
(* 422 by the framework and the handler is not called.                     *)
(***************************************************************************)
NoBody == [none |-> TRUE]

ValidationError == [detail |-> "validation error"]

PackageImageUrl ==
    "https://images.unsplash.com/photo-1586015555751-63f17a0b3bd9?q=80&w=1200&auto=format&fit=crop"

recommend_result(body, C, D) ==
    IF SurveyResponseValid(body)
    THEN [status |-> 200, engine_runs |-> 1,
          response |-> [package_image_url |-> PackageImageUrl,
                        recommendations |->
                            build_recommendations(SurveyResponse(body), C, D)]]
    ELSE [status |-> 422, engine_runs |-> 0, response |-> ValidationError]

\* mutant: the count taken over the distinct names
send_email_result_distinct(body) ==
    IF EmailPayloadValid(body)
    THEN [status |-> 200, engine_runs |-> 0,
          response |-> [status |-> "queued",
                        email |-> EmailPayload(body).email,
                        count |-> Cardinality({EmailPayload(body).recommendations[k].name :
                                     k \in 1..Len(EmailPayload(body).recommendations)})]]
    ELSE [status |-> 422, engine_runs |-> 0, response |-> ValidationError]

send_email_result(body) ==
    IF EmailPayloadValid(body)
    THEN [status |-> 200, engine_runs |-> 0,
          response |-> [status |-> "queued",
                        email |-> EmailPayload(body).email,
                        count |-> Len(EmailPayload(body).recommendations)]]
    ELSE [status |-> 422, engine_runs |-> 0, response |-> ValidationError]

\* now is the instant datetime.utcnow() returns, as a number
health_result(now) ==
    [status |-> 200, engine_runs |-> 0, response |-> [status |-> "ok", time |-> now]]

(***************************************************************************)
(* Connections: slot i is idle, holds a request that was received and not  *)
(* yet handled, or holds a handled request with its response.              *)
(***************************************************************************)
Slots == 1..MaxInFlight

NoRequest == [kind |-> "none", body |-> NoBody]

Idle ==
    [phase |-> "idle", req |-> NoRequest, status |-> 0, engine_runs |-> 0,
     response |-> NoBody]

Received(r) == [Idle EXCEPT !.phase = "received", !.req = r]

Done(c, result) ==
    [c EXCEPT !.phase = "done", !.status = result.status,
              !.engine_runs = result.engine_runs, !.response = result.response]

Receive(i, r) ==
    /\ conn[i].phase = "idle"
    /\ conn' = [conn EXCEPT ![i] = Received(r)]
    /\ UNCHANGED <<CITATIONS, COUNTRY_DEFICIENCY>>

\* reversed list
Reversed(l) == [k \in 1..Len(l) |-> l[Len(l) + 1 - k]]

\* mutant: the handler reorders the sources of a record in place, and the
\* record shares its list with the citation table
recommend_shared_sources(i) ==
    /\ conn[i].phase = "received"
    /\ conn[i].req.kind = "recommend"
    /\ conn' = [conn EXCEPT ![i] =
                   Done(@, recommend_result(@.req.body, CITATIONS, COUNTRY_DEFICIENCY))]
    /\ CITATIONS' = [CITATIONS EXCEPT !["magnesium"] = Reversed(@)]
    /\ UNCHANGED COUNTRY_DEFICIENCY

\* mutant: the country entry taken out of the table (pop) instead of read (get)
recommend_pop_country(i) ==
    /\ conn[i].phase = "received"
    /\ conn[i].req.kind = "recommend"
    /\ conn' = [conn EXCEPT ![i] =
                   Done(@, recommend_result(@.req.body, CITATIONS, COUNTRY_DEFICIENCY))]
    /\ COUNTRY_DEFICIENCY' =
           [c \in DOMAIN COUNTRY_DEFICIENCY \ {lower(conn[i].req.body.country)} |->
               COUNTRY_DEFICIENCY[c]]
    /\ UNCHANGED CITATIONS

\* POST /recommend
recommend(i) ==
    /\ conn[i].phase = "received"
    /\ conn[i].req.kind = "recommend"
    /\ conn' = [conn EXCEPT ![i] =
                   Done(@, recommend_result(@.req.body, CITATIONS, COUNTRY_DEFICIENCY))]
    /\ UNCHANGED <<CITATIONS, COUNTRY_DEFICIENCY>>

\* POST /send-email
send_email(i) ==
    /\ conn[i].phase = "received"
    /\ conn[i].req.kind = "send_email"
    /\ conn' = [conn EXCEPT ![i] = Done(@, send_email_result(@.req.body))]
    /\ UNCHANGED <<CITATIONS, COUNTRY_DEFICIENCY>>

\* GET /health
health(i) ==
    /\ conn[i].phase = "received"
    /\ conn[i].req.kind = "health"
    /\ \E now \in 0..MaxClock :
          conn' = [conn EXCEPT ![i] = Done(@, health_result(now))]
    /\ UNCHANGED <<CITATIONS, COUNTRY_DEFICIENCY>>

\* the response is written to the client and the connection is free again
Respond(i) ==
    /\ conn[i].phase = "done"
    /\ conn' = [conn EXCEPT ![i] = Idle]
    /\ UNCHANGED <<CITATIONS, COUNTRY_DEFICIENCY>>

(***************************************************************************)
(* Inputs.  Countries and e-mail addresses a client may send.              *)
(***************************************************************************)
France == <<"F","r","a","n","c","e">>

CountryInputs ==
    {France,
     <<"U","K">>, <<"u","k">>, <<"U","k">>, <<"u","K">>,
     <<"I","r","e","l","a","n","d">>,
     <<"C","A","N","A","D","A">>,
     <<"s","w","e","d","e","n">>,
     <<"N","o","r","w","a","y">>,
     <<"U","K"," ">>,
     <<"U">>,
     <<>>}

GoodEmail == <<"a","@","b",".","c","o">>

EmailInputs ==
    {GoodEmail,
     <<"a","@","B",".","C","o">>,
     <<"A","@","b",".","c","o">>,
     <<" ","a","@","b",".","c","o">>,
     <<"a","b",".","c","o">>,
     <<"a","@","b","c","o">>,
     <<"a","@","@","b",".","c","o">>,
     <<>>}

\* every rating b, country France, no e-mail
BaseSurvey(b) ==
    [energy |-> b, gut_health |-> b, muscle_gain |-> b, stress |-> b, sleep |-> b,
     allergies |-> b, autoimmune |-> b, skin |-> b, digestion |-> b,
     country |-> France, email |-> {}]

\* the fields of a survey, in the order of the class
SurveyFields ==
    <<"energy", "gut_health", "muscle_gain", "stress", "sleep", "allergies",
      "autoimmune", "skin", "digestion", "country", "email">>

\* the values a client may send in a field
FieldInputs(f) ==
    IF f = "country" THEN CountryInputs
    ELSE IF f = "email" THEN {{}} \cup {{e} : e \in EmailInputs}
    ELSE RatingInputs

\* recommendation records a client may post back: two the engine issues
\* and one with the optional fields left out
PayloadRecs ==
    {Recommendation("Magnesium Glycinate",
         "Supports cellular energy and relaxation; often low in modern diets.",
         "200-400 mg in the evening", CitationsAtStart["magnesium"]),
     Recommendation("Quercetin",
         "Bioflavonoid studied for mast-cell stabilization and seasonal allergies.",
         "500-1000 mg daily with food", CitationsAtStart["quercetin"]),
     [name |-> "Quercetin", reason |-> "", dosage |-> {}, sources |-> <<>>]}

PayloadInputs ==
    {[email |-> e, recommendations |-> l] :
        e \in EmailInputs,
        l \in UNION {[1..n -> PayloadRecs] : n \in 0..MaxPayloadRecs}}

RecommendRequest(body) == [kind |-> "recommend", body |-> body]

SendEmailRequest(body) == [kind |-> "send_email", body |-> body]

HealthRequest == [kind |-> "health", body |-> NoBody]

\* the requests the concurrent server is driven with
ServerRequests ==
    {RecommendRequest(b) :
        b \in {BaseSurvey(RatingMin), BaseSurvey(RatingMax), BaseSurvey(RatingMax + 1),
               BaseSurvey(RatingMin - 1), BaseSurvey(3),
               [BaseSurvey(RatingMax) EXCEPT !.email = {GoodEmail}],
               [BaseSurvey(RatingMax) EXCEPT !.email = {<<"a","b",".","c","o">>}],
               [BaseSurvey(RatingMin) EXCEPT !.country = <<"U","k">>],
               [BaseSurvey(RatingMax) EXCEPT !.country = <<"U","K">>]}}
        \cup {SendEmailRequest(b) :
                b \in {p \in PayloadInputs :
                         /\ p.email \in {GoodEmail, <<"a","b",".","c","o">>}
                         /\ Len(p.recommendations) <= 1
                         /\ \A k \in 1..Len(p.recommendations) :
                               p.recommendations[k].dosage = {}}}
        \cup {HealthRequest}

(***************************************************************************)
(* The server: any number of requests up to MaxInFlight, received, handled *)
(* and answered in any interleaving.                                       *)
(***************************************************************************)
Init ==
    /\ CITATIONS = CitationsAtStart
    /\ COUNTRY_DEFICIENCY = CountryDeficiencyAtStart
    /\ conn = [i \in Slots |-> Idle]

Next ==
    \E i \in Slots :
        \/ \E r \in ServerRequests : Receive(i, r)
        \/ recommend(i)
        \/ send_email(i)
        \/ health(i)
        \/ Respond(i)

Spec == Init /\ [][Next]_vars

(***************************************************************************)
(* One request at a time, over the whole input space: the request is in    *)
(* slot 1 and its handler runs.                                            *)
(***************************************************************************)
OneRequest(r) == conn = [i \in Slots |-> IF i = 1 THEN Received(r) ELSE Idle]

\* the request is a survey: s, or s with up to n of the fields from the k-th
\* on changed
RECURSIVE OneSurvey(_, _, _)
OneSurvey(s, k, n) ==
    \/ OneRequest(RecommendRequest(s))
    \/ /\ n > 0
       /\ \E j \in k..Len(SurveyFields) :
             \E v \in FieldInputs(SurveyFields[j]) \ {s[SurveyFields[j]]} :
                 OneSurvey([s EXCEPT ![SurveyFields[j]] = v], j + 1, n - 1)

\* a survey within MaxVaried fields of a uniform valid survey, any payload,
\* or a health check
RequestInit ==
    /\ CITATIONS = CitationsAtStart
    /\ COUNTRY_DEFICIENCY = CountryDeficiencyAtStart
    /\ \/ \E b \in RatingMin..RatingMax : OneSurvey(BaseSurvey(b), 1, MaxVaried)
       \/ \E p \in PayloadInputs : OneRequest(SendEmailRequest(p))
       \/ OneRequest(HealthRequest)

RequestNext == recommend(1) \/ send_email(1) \/ health(1)

RequestSpec == RequestInit /\ [][RequestNext]_vars

(***************************************************************************)
(* Properties.                                                             *)
(***************************************************************************)
\* a /recommend request that was handled
RecommendDone(c) == c.phase = "done" /\ c.req.kind = "recommend"

\* ... and was answered with a RecommendationResult
RecommendOk(c) == RecommendDone(c) /\ c.status = 200

\* a /send-email request that was handled and acknowledged
SendEmailOk(c) == c.phase = "done" /\ c.req.kind = "send_email" /\ c.status = 200

NamesOf(l) == {l[k].name : k \in 1..Len(l)}

\* the rule table's order
RuleOrder ==
    <<"Magnesium Glycinate", "Creatine Monohydrate", "Multi-strain Probiotic",
      "Ashwagandha (KSM-66/Sensoril)", "Omega-3 (EPA/DHA)", "Quercetin",
      "Zinc Picolinate", "Vitamin D3 (cholecalciferol)">>

RulePos(name) == CHOOSE k \in 1..Len(RuleOrder) : RuleOrder[k] = name

\* the high-latitude countries of the rule table
HighLatitude ==
    {<<"u","k">>, <<"i","r","e","l","a","n","d">>, <<"c","a","n","a","d","a">>,
     <<"s","w","e","d","e","n">>, <<"n","o","r","w","a","y">>}

\* a and b are the same letter, in either case
SameLetter(a, b) ==
    \/ a = b
    \/ \E k \in 1..Len(UpperLetters) :
          {a, b} = {UpperLetters[k], LowerLetters[k]}

\* country is one of the high-latitude names, in any mix of cases
NamesHighLatitude(country) ==
    \E t \in HighLatitude :
        /\ Len(country) = Len(t)
        /\ \A k \in 1..Len(t) : SameLetter(country[k], t[k])

\* C1: the names recommended for a valid survey are exactly the supplements
\* whose rule condition holds; all ratings 1 in France gives the empty list and
\* skin 5, allergies 5, all else 1 in France gives Omega-3, Quercetin and Zinc.
C1_NamesAreExactlyTheFiringRules ==
    \A i \in Slots :
        RecommendOk(conn[i]) =>
            LET d == conn[i].req.body
                recs == conn[i].response.recommendations
                names == NamesOf(recs)
            IN  /\ names \subseteq {RuleOrder[k] : k \in 1..Len(RuleOrder)}
                /\ "Magnesium Glycinate" \in names <=> d.energy >= 4
                /\ "Creatine Monohydrate" \in names <=> d.muscle_gain >= 3
                /\ "Multi-strain Probiotic" \in names
                       <=> (d.gut_health >= 3 \/ d.digestion >= 3)
                /\ "Ashwagandha (KSM-66/Sensoril)" \in names
                       <=> (d.stress >= 3 \/ d.sleep >= 3)
                /\ "Omega-3 (EPA/DHA)" \in names <=> (d.skin >= 3 \/ d.allergies >= 3)
                /\ "Quercetin" \in names <=> d.allergies >= 4
                /\ "Zinc Picolinate" \in names <=> d.skin >= 4
                /\ "Vitamin D3 (cholecalciferol)" \in names
                       <=> NamesHighLatitude(d.country)
                /\ d = BaseSurvey(1) => recs = <<>>
                /\ d = [BaseSurvey(1) EXCEPT !.skin = 5, !.allergies = 5]
                       => names = {"Omega-3 (EPA/DHA)", "Quercetin", "Zinc Picolinate"}

C1_Witness ==
    \E i \in Slots :
        /\ RecommendOk(conn[i])
        /\ conn[i].req.body = [BaseSurvey(1) EXCEPT !.skin = 5, !.allergies = 5]
        /\ Len(conn[i].response.recommendations) = 3

\* C2: the names in a returned recommendation list are pairwise distinct.
C2_NamesPairwiseDistinct ==
    \A i \in Slots :
        RecommendOk(conn[i]) =>
            LET recs == conn[i].response.recommendations
            IN  \A a, b \in 1..Len(recs) : a # b => recs[a].name # recs[b].name

C2_Witness ==
    \E i \in Slots :
        /\ RecommendOk(conn[i])
        /\ conn[i].req.body.skin >= 3
        /\ conn[i].req.body.allergies >= 3
        /\ Len(conn[i].response.recommendations) >= 2

\* index of the first and of the last record of l that is named n
FirstIndex(l, n) == CHOOSE k \in 1..Len(l) :
                        l[k].name = n /\ \A j \in 1..(k - 1) : l[j].name # n

LastIndex(l, n) == CHOOSE k \in 1..Len(l) :
                       l[k].name = n /\ \A j \in (k + 1)..Len(l) : l[j].name # n

\* C3: the returned list follows the rule table's order (it is a subsequence
\* of it), and the collapse by name keeps every distinct name of the rule
\* results, at the position of its first insertion, with the record that was
\* evaluated last for that name.
C3_OutputInRuleOrder ==
    \A i \in Slots :
        RecommendOk(conn[i]) =>
            LET out == conn[i].response.recommendations
                recs == RuleRecs(SurveyResponse(conn[i].req.body),
                                 CitationsAtStart, CountryDeficiencyAtStart)
            IN  /\ \A a \in 1..Len(out) : \E k \in 1..Len(RuleOrder) : RuleOrder[k] = out[a].name
                /\ \A a, b \in 1..Len(out) :
                       a < b => RulePos(out[a].name) < RulePos(out[b].name)
                /\ NamesOf(out) = NamesOf(recs)
                /\ \A a, b \in 1..Len(out) :
                       a < b => FirstIndex(recs, out[a].name) < FirstIndex(recs, out[b].name)
                /\ \A a \in 1..Len(out) : out[a] = recs[LastIndex(recs, out[a].name)]

C3_Witness ==
    \E i \in Slots :
        /\ RecommendOk(conn[i])
        /\ Len(conn[i].response.recommendations) = Len(RuleOrder)

\* C4: Vitamin D3 is recommended exactly when the country, compared without
\* regard to case, is uk, ireland, canada, sweden or norway: "UK", "uk" and
\* "Uk" yield it, "France" with the same ratings does not.
C4_VitaminDCaseInsensitive ==
    \A i \in Slots :
        RecommendOk(conn[i]) =>
            LET d == conn[i].req.body
                names == NamesOf(conn[i].response.recommendations)
            IN  /\ "Vitamin D3 (cholecalciferol)" \in names
                       <=> lower(d.country) \in HighLatitude
                /\ lower(d.country) \in HighLatitude <=> NamesHighLatitude(d.country)
                /\ d.country \in {<<"U","K">>, <<"u","k">>, <<"U","k">>}
                       => "Vitamin D3 (cholecalciferol)" \in names
                /\ d.country = France => "Vitamin D3 (cholecalciferol)" \notin names

C4_Witness ==
    \E i \in Slots :
        /\ RecommendOk(conn[i])
        /\ conn[i].req.body.country = <<"U","k">>
        /\ \A f \in RatingFields : conn[i].req.body[f] = 1
        /\ NamesOf(conn[i].response.recommendations) = {"Vitamin D3 (cholecalciferol)"}

\* some rating of the survey lies outside [RatingMin, RatingMax]
SomeRatingOutOfRange(d) == \E f \in RatingFields : d[f] < RatingMin \/ d[f] > RatingMax

\* C5 as stated: a /recommend request with a rating outside [1,5] is rejected
\* and the engine does not run for it; a request whose ratings all lie in [1,5]
\* is accepted and reaches the engine.
C5_RatingsAloneDecideAcceptance ==
    \A i \in Slots :
        RecommendDone(conn[i]) =>
            LET d == conn[i].req.body
            IN  /\ SomeRatingOutOfRange(d)
                       => conn[i].status = 422 /\ conn[i].engine_runs = 0
                /\ ~SomeRatingOutOfRange(d)
                       => conn[i].status = 200 /\ conn[i].engine_runs = 1

\* C5 as amended: a /recommend request with a rating outside [1,5] is rejected
\* and the engine does not run for it; a request whose ratings all lie in [1,5],
\* the boundary values 1 and 5 included, and whose e-mail is absent or
\* well-formed (the country being a string) is accepted and reaches the engine.
C5_OutOfRangeRejectedInRangeAccepted ==
    \A i \in Slots :
        RecommendDone(conn[i]) =>
            LET d == conn[i].req.body
            IN  /\ SomeRatingOutOfRange(d)
                       => conn[i].status = 422 /\ conn[i].engine_runs = 0
                /\ (~SomeRatingOutOfRange(d) /\ \A e \in d.email : EmailSyntaxOk(strip(e)))
                       => conn[i].status = 200 /\ conn[i].engine_runs = 1
                /\ (d.email = {} /\ d.energy \in {0, 6}) => conn[i].status = 422
                /\ (d.email = {} /\ d.energy \in {1, 5}
                        /\ \A f \in RatingFields \ {"energy"} : d[f] \in 1..5)
                       => conn[i].status = 200

C5_Witness ==
    \E i \in Slots :
        /\ RecommendDone(conn[i])
        /\ conn[i].req.body.energy = 6
        /\ \A f \in RatingFields \ {"energy"} : conn[i].req.body[f] = 5
        /\ conn[i].status = 422
        /\ conn[i].engine_runs = 0

\* the dosage the rule table of the specification lists for a supplement
TableDosage(name) ==
    CASE name = "Magnesium Glycinate" -> "200-400 mg evening"
      [] name = "Creatine Monohydrate" -> "3-5 g daily"
      [] name = "Multi-strain Probiotic" -> "10-20B CFU daily"
      [] name = "Ashwagandha (KSM-66/Sensoril)" -> "300-600 mg daily"
      [] name = "Omega-3 (EPA/DHA)" -> "1-2 g daily"
      [] name = "Quercetin" -> "500-1000 mg daily with food"
      [] name = "Zinc Picolinate" -> "15-30 mg daily with food"
      [] name = "Vitamin D3 (cholecalciferol)" -> "1000-2000 IU daily"

\* the same, with the two entries the code words differently
IssuedDosage(name) ==
    CASE name = "Magnesium Glycinate" -> "200-400 mg in the evening"
      [] name = "Omega-3 (EPA/DHA)" -> "1-2 g combined EPA/DHA daily"
      [] OTHER -> TableDosage(name)

\* C7 as stated: every recommendation carries the dosage string the rule
\* table lists for its rule.
C7_DosageAsInRuleTable ==
    \A i \in Slots :
        RecommendOk(conn[i]) =>
            LET recs == conn[i].response.recommendations
            IN  \A k \in 1..Len(recs) : recs[k].dosage = {TableDosage(recs[k].name)}

\* C7 as amended: every recommendation carries the rule table's dosage string,
\* except that Magnesium Glycinate carries "200-400 mg in the evening" and
\* Omega-3 (EPA/DHA) carries "1-2 g combined EPA/DHA daily".
C7_DosageAsIssued ==
    \A i \in Slots :
        RecommendOk(conn[i]) =>
            LET recs == conn[i].response.recommendations
            IN  \A k \in 1..Len(recs) : recs[k].dosage = {IssuedDosage(recs[k].name)}

C7_Witness ==
    \E i \in Slots :
        /\ RecommendOk(conn[i])
        /\ \E k \in 1..Len(conn[i].response.recommendations) :
              /\ conn[i].response.recommendations[k].name = "Omega-3 (EPA/DHA)"
              /\ conn[i].response.recommendations[k].dosage
                     = {"1-2 g combined EPA/DHA daily"}
        /\ Len(conn[i].response.recommendations) = Len(RuleOrder)

\* the citation table's key of a supplement
SupplementKey(name) ==
    CASE name = "Magnesium Glycinate" -> "magnesium"
      [] name = "Creatine Monohydrate" -> "creatine"
      [] name = "Multi-strain Probiotic" -> "probiotic"
      [] name = "Ashwagandha (KSM-66/Sensoril)" -> "ashwagandha"
      [] name = "Omega-3 (EPA/DHA)" -> "omega_3"
      [] name = "Quercetin" -> "quercetin"
      [] name = "Zinc Picolinate" -> "zinc"
      [] name = "Vitamin D3 (cholecalciferol)" -> "vitamin_d"

\* C8: every recommendation carries as its citations exactly the list the
\* citation table stores under its supplement's key, in the table's order.
C8_SourcesAreTheTableEntry ==
    \A i \in Slots :
        RecommendOk(conn[i]) =>
            LET recs == conn[i].response.recommendations
            IN  \A k \in 1..Len(recs) :
                    /\ recs[k].sources = CITATIONS[SupplementKey(recs[k].name)]
                    /\ recs[k].sources = CitationsAtStart[SupplementKey(recs[k].name)]

C8_Witness ==
    \E i \in Slots :
        /\ RecommendOk(conn[i])
        /\ \E k \in 1..Len(conn[i].response.recommendations) :
              /\ conn[i].response.recommendations[k].name = "Zinc Picolinate"
              /\ conn[i].response.recommendations[k].sources
                     = <<"University of Florida - Zinc and skin health">>
        /\ \E k \in 1..Len(conn[i].response.recommendations) :
              /\ conn[i].response.recommendations[k].name = "Vitamin D3 (cholecalciferol)"
              /\ Len(conn[i].response.recommendations[k].sources) = 2

\* the tables hold what they held at process start
TablesAsAtStart ==
    /\ CITATIONS = CitationsAtStart
    /\ COUNTRY_DEFICIENCY = CountryDeficiencyAtStart

\* C10 as stated: an acknowledged /send-email has status "queued", echoes the
\* submitted e-mail unchanged and counts the payload's recommendations; no
\* state changes.
C10_EchoesSubmittedEmail ==
    \A i \in Slots :
        SendEmailOk(conn[i]) =>
            /\ conn[i].response.status = "queued"
            /\ conn[i].response.email = conn[i].req.body.email
            /\ conn[i].response.count = Len(conn[i].req.body.recommendations)
            /\ TablesAsAtStart

\* C10 as amended: an acknowledged /send-email has status "queued", counts the
\* payload's recommendations and echoes the e-mail as validated: the submitted
\* address without its surrounding blanks, the local part as given and the
\* "@" and domain in lower case (the submitted text itself when it has neither
\* surrounding blanks nor an upper-case letter in its domain); no state changes.
C10_EchoesValidatedEmail ==
    \A i \in Slots :
        SendEmailOk(conn[i]) =>
            LET given == conn[i].req.body.email
                bare == strip(given)
                echo == conn[i].response.email
            IN  /\ conn[i].response.status = "queued"
                /\ conn[i].response.count = Len(conn[i].req.body.recommendations)
                /\ Len(echo) = Len(bare)
                /\ \A k \in 1..Len(bare) :
                       echo[k] = IF k < AtIndex(bare) THEN bare[k] ELSE LowerChar(bare[k])
                /\ (/\ given = bare
                    /\ \A k \in AtIndex(bare)..Len(bare) : LowerChar(bare[k]) = bare[k])
                       => echo = given
                /\ conn[i].engine_runs = 0
                /\ TablesAsAtStart

C10_Witness ==
    \E i \in Slots :
        /\ SendEmailOk(conn[i])
        /\ conn[i].req.body.email = <<"a","@","B",".","C","o">>
        /\ conn[i].response.email = <<"a","@","b",".","c","o">>
        /\ conn[i].response.count = MaxPayloadRecs

\* C6: two /recommend invocations with the same input return equal lists,
\* whatever was handled before or between them, and each list is the one the
\* engine yields for that input at process start.
C6_SameInputSameOutput ==
    /\ \A i, j \in Slots :
          (/\ RecommendDone(conn[i])
           /\ RecommendDone(conn[j])
           /\ conn[i].req.body = conn[j].req.body)
              => /\ conn[i].status = conn[j].status
                 /\ conn[i].response = conn[j].response
    /\ \A i \in Slots :
          RecommendOk(conn[i]) =>
              conn[i].response.recommendations
                  = DictValues(UniqueByName(
                        RuleRecs(SurveyResponse(conn[i].req.body),
                                 CitationsAtStart, CountryDeficiencyAtStart), <<>>))

C6_Witness ==
    \E i, j \in Slots :
        /\ i # j
        /\ RecommendOk(conn[i])
        /\ RecommendOk(conn[j])
        /\ conn[i].req.body = conn[j].req.body
        /\ Len(conn[i].response.recommendations) = Len(RuleOrder)

\* C9: whatever requests were received, handled and answered, in whatever
\* interleaving, the citation table and the country table hold what they held
\* at process start.
C9_TablesNeverChange ==
    /\ CITATIONS = CitationsAtStart
    /\ COUNTRY_DEFICIENCY = CountryDeficiencyAtStart

C9_Witness ==
    \E i, j \in Slots :
        /\ RecommendOk(conn[i])
        /\ Len(conn[i].response.recommendations) >= 1
        /\ conn[j].phase = "done"
        /\ conn[j].req.kind \in {"send_email", "health"}

====
